---- MODULE Spec2Model ----
(***************************************************************************)
(* query-params-mongo (src/index.js): the factory qpm(opts) and the        *)
(* processor processQuery(params, fields, validate) it returns.            *)
(*                                                                         *)
(* JavaScript strings are sequences of one-character strings, so that the  *)
(* splits, the regular-expression tests and the parsers of the source are  *)
(* computed and not assumed.  A JavaScript value is a record [t, s, n]:    *)
(*   t = "undefined"                                                       *)
(*   t = "string"   s = its characters                                     *)
(*   t = "number"   n = integer part, s = fraction digits (no trailing 0)  *)
(*   t = "NaN"                                                             *)
(*   t = "boolean"  n = 1 (true) or 0 (false)                              *)
(*   t = "Date"     s = the text the date was parsed from                  *)
(*   t = "RegExp"   s = source, n = 1 with the flag i, else 0              *)
(*   t = "object"   s, n = the fields name and age of a name-age object    *)
(***************************************************************************)
EXTENDS Integers, Sequences, FiniteSets, TLC

VARIABLES
    defaultDataTypeConverters,  \* index.js:35 the module-wide converter table
    processors,                 \* the processors created so far, in order
    call                        \* the processor call in progress or finished

vars == <<defaultDataTypeConverters, processors, call>>

-----------------------------------------------------------------------------
(* Strings *)

Digits == <<"0", "1", "2", "3", "4", "5", "6", "7", "8", "9">>

IsDigit(c) == \E i \in 1..10 : Digits[i] = c

DigitVal(c) == (CHOOSE i \in 1..10 : Digits[i] = c) - 1

LowerLetters == <<"a", "b", "c", "d", "e", "f", "g", "h", "i", "j", "k", "l", "m",
                  "n", "o", "p", "q", "r", "s", "t", "u", "v", "w", "x", "y", "z">>

UpperLetters == <<"A", "B", "C", "D", "E", "F", "G", "H", "I", "J", "K", "L", "M",
                  "N", "O", "P", "Q", "R", "S", "T", "U", "V", "W", "X", "Y", "Z">>

Lower(c) ==
    IF \E i \in 1..26 : UpperLetters[i] = c
    THEN LowerLetters[CHOOSE i \in 1..26 : UpperLetters[i] = c]
    ELSE c

IsLetter(c) == \E i \in 1..26 : LowerLetters[i] = c \/ UpperLetters[i] = c

Drop(s, k) == IF k >= Len(s) THEN <<>> ELSE SubSeq(s, k + 1, Len(s))

Take(s, k) == IF k >= Len(s) THEN s ELSE SubSeq(s, 1, k)

StartsWith(s, p) == Len(p) <= Len(s) /\ SubSeq(s, 1, Len(p)) = p

EndsWith(s, p) == Len(p) <= Len(s) /\ SubSeq(s, Len(s) - Len(p) + 1, Len(s)) = p

Contains(s, p) ==
    \E i \in 1..(Len(s) - Len(p) + 1) : SubSeq(s, i, i + Len(p) - 1) = p

\* String.prototype.indexOf, 1-based; 0 when p does not occur
IndexOf(s, p) ==
    IF Contains(s, p)
    THEN CHOOSE i \in 1..(Len(s) - Len(p) + 1) :
             /\ SubSeq(s, i, i + Len(p) - 1) = p
             /\ \A j \in 1..(i - 1) : SubSeq(s, j, j + Len(p) - 1) # p
    ELSE 0

\* String.prototype.split(sep) for a non-empty separator
RECURSIVE Split(_, _)
Split(s, sep) ==
    LET i == IndexOf(s, sep)
    IN  IF i = 0 THEN <<s>>
        ELSE <<SubSeq(s, 1, i - 1)>> \o Split(Drop(s, i + Len(sep) - 1), sep)

\* Array.prototype.join(",")
RECURSIVE Join(_)
Join(parts) ==
    IF Len(parts) = 0 THEN <<>>
    ELSE IF Len(parts) = 1 THEN parts[1]
    ELSE parts[1] \o <<",">> \o Join(Tail(parts))

LowerStr(s) == [i \in 1..Len(s) |-> Lower(s[i])]

\* the leading run of decimal digits of s
RECURSIVE DigitPrefix(_)
DigitPrefix(s) ==
    IF Len(s) > 0 /\ IsDigit(s[1]) THEN <<s[1]>> \o DigitPrefix(Tail(s)) ELSE <<>>

RECURSIVE DigitsToNat(_)
DigitsToNat(d) ==
    IF Len(d) = 0 THEN 0
    ELSE 10 * DigitsToNat(SubSeq(d, 1, Len(d) - 1)) + DigitVal(d[Len(d)])

RECURSIVE NatToDigits(_)
NatToDigits(k) ==
    IF k < 10 THEN <<Digits[k + 1]>>
    ELSE NatToDigits(k \div 10) \o <<Digits[(k % 10) + 1]>>

RECURSIVE StripTrailingZeros(_)
StripTrailingZeros(d) ==
    IF Len(d) > 0 /\ d[Len(d)] = "0"
    THEN StripTrailingZeros(SubSeq(d, 1, Len(d) - 1))
    ELSE d

RECURSIVE SkipSpaces(_)
SkipSpaces(s) ==
    IF Len(s) > 0 /\ s[1] = " " THEN SkipSpaces(Tail(s)) ELSE s

-----------------------------------------------------------------------------
(* JavaScript values *)

Undefined == [t |-> "undefined", s |-> <<>>, n |-> 0]
NaN       == [t |-> "NaN", s |-> <<>>, n |-> 0]
Str(s)    == [t |-> "string", s |-> s, n |-> 0]
Num(k, f) == [t |-> "number", s |-> f, n |-> k]
Bool(b)   == [t |-> "boolean", s |-> <<>>, n |-> IF b THEN 1 ELSE 0]
DateOf(s) == [t |-> "Date", s |-> s, n |-> 0]
RegExpOf(src, flags) == [t |-> "RegExp", s |-> src, n |-> IF flags = "i" THEN 1 ELSE 0]
ObjectOf(name, age) == [t |-> "object", s |-> name, n |-> age]

\* ToBoolean of a value: the falsy values are undefined, NaN, 0, "" and false
Truthy(v) ==
    CASE v.t = "undefined" -> FALSE
      [] v.t = "NaN"       -> FALSE
      [] v.t = "string"    -> v.s # <<>>
      [] v.t = "number"    -> v.n # 0 \/ v.s # <<>>
      [] v.t = "boolean"   -> v.n = 1
      [] OTHER             -> TRUE

\* a primitive: a property assignment on it is dropped (the source is sloppy-mode code)
IsPrimitive(v) == v.t \in {"undefined", "NaN", "string", "number", "boolean"}

\* String(v) of a value, as RegExp(v) and the string concatenations apply it
JsString(v) ==
    CASE v.t = "undefined" -> <<"u", "n", "d", "e", "f", "i", "n", "e", "d">>
      [] v.t = "NaN"       -> <<"N", "a", "N">>
      [] v.t = "string"    -> v.s
      [] v.t = "number"    ->
            (IF v.n < 0 THEN <<"-">> \o NatToDigits(0 - v.n) ELSE NatToDigits(v.n))
            \o (IF v.s = <<>> THEN <<>> ELSE <<".">> \o v.s)
      [] v.t = "boolean"   -> IF v.n = 1 THEN <<"t", "r", "u", "e">>
                              ELSE <<"f", "a", "l", "s", "e">>
      [] v.t = "RegExp"    -> <<"/">> \o v.s \o <<"/">>
      [] OTHER             -> <<"[", "o", "b", "j", "e", "c", "t", "]">>

-----------------------------------------------------------------------------
(* The regular expressions of the source, each as the test it performs *)

AllDigits(s) == \A i \in 1..Len(s) : IsDigit(s[i])

\* RegExp.prototype.test(str) for the patterns the configurations hold
Test(pattern, s) ==
    CASE pattern = "/^is/"     -> StartsWith(s, <<"i", "s">>)
      [] pattern = "/_date$/"  -> EndsWith(s, <<"_", "d", "a", "t", "e">>)
      [] pattern = "/^[0-9]+$/" -> Len(s) > 0 /\ AllDigits(s)
      [] pattern = "/^[0-9]*\\.[0-9]+$/" ->
            \E i \in 1..Len(s) :
                /\ s[i] = "."
                /\ AllDigits(SubSeq(s, 1, i - 1))
                /\ i < Len(s)
                /\ AllDigits(SubSeq(s, i + 1, Len(s)))
      [] pattern = "/^true|false|yes|no$/i" ->
            LET l == LowerStr(s)
            IN  \/ StartsWith(l, <<"t", "r", "u", "e">>)
                \/ Contains(l, <<"f", "a", "l", "s", "e">>)
                \/ Contains(l, <<"y", "e", "s">>)
                \/ EndsWith(l, <<"n", "o">>)
      [] pattern = "/^[0-9][0-9-: ]+$/" ->
            /\ Len(s) >= 2
            /\ IsDigit(s[1])
            /\ \A i \in 2..Len(s) : IsDigit(s[i]) \/ s[i] \in {"-", ":", " "}
      [] pattern = "/[a-zA-Z]+![0-9]+$/" ->
            \E i \in 2..(Len(s) - 1) :
                /\ s[i] = "!"
                /\ IsLetter(s[i - 1])
                /\ AllDigits(SubSeq(s, i + 1, Len(s)))
      [] OTHER -> FALSE

\* /in/.test(paramOp), /re/.test(paramOp), /sw/.test(paramOp), /co/.test(paramOp)
HasIn(paramOp) == Contains(paramOp, <<"i", "n">>)
HasRe(paramOp) == Contains(paramOp, <<"r", "e">>)
HasSw(paramOp) == Contains(paramOp, <<"s", "w">>)
HasCo(paramOp) == Contains(paramOp, <<"c", "o">>)

validOperators ==
    << <<"e", "q">>, <<"n", "e">>, <<"g", "t">>, <<"g", "t", "e">>, <<"l", "t">>,
       <<"l", "t", "e">>, <<"i", "n">>, <<"n", "i", "n">>, <<"a", "l", "l">>,
       <<"e", "x", "i", "s", "t", "s">>,
       <<"e", "q", "a">>,
       <<"s", "w">>, <<"s", "w", "i", "n">>, <<"i", "s", "w">>,
       <<"i", "s", "w", "i", "n">>, <<"c", "o">>, <<"c", "o", "i", "n">>,
       <<"i", "c", "o">>, <<"i", "c", "o", "i", "n">>, <<"r", "e">>,
       <<"r", "e", "i", "n">>, <<"i", "r", "e">>, <<"i", "r", "e", "i", "n">> >>

\* validOperators.indexOf(paramOp) != -1
IsValidOperator(paramOp) == \E i \in 1..Len(validOperators) : validOperators[i] = paramOp

isMultiValOp(paramOp) ==
    HasIn(paramOp) \/ paramOp = <<"a", "l", "l">> \/ paramOp = <<"e", "q", "a">>

RegexMetaChars == {".", "?", "*", "+", "^", "$", "[", "]", "\\", "(", ")", "{", "}", "|", "-"}

\* a faulty variant of regEscape, which the properties must tell apart: nothing is escaped
regEscapeNothing(pattern) == pattern

\* pattern.replace(/[.?*+^$[\]\\(){}|-]/g, "\\$&") of a string
RECURSIVE regEscape(_)
regEscape(pattern) ==
    IF Len(pattern) = 0 THEN <<>>
    ELSE (IF pattern[1] \in RegexMetaChars THEN <<"\\", pattern[1]>> ELSE <<pattern[1]>>)
         \o regEscape(Tail(pattern))

-----------------------------------------------------------------------------
(* Converters.  A converter is named by an identifier; Convert applies it.  *)
(* The raw values of the model hold no "0x" prefix, no exponent and no      *)
(* "Infinity", so parseInt reads radix 10 and parseFloat a plain decimal.   *)

\* parseInt(str): spaces, a sign, then the leading decimal digits; NaN without digits
parseInt(str) ==
    LET t    == SkipSpaces(str)
        neg  == Len(t) > 0 /\ t[1] = "-"
        body == IF Len(t) > 0 /\ t[1] \in {"-", "+"} THEN Tail(t) ELSE t
        d    == DigitPrefix(body)
    IN  IF d = <<>> THEN NaN
        ELSE Num(IF neg THEN 0 - DigitsToNat(d) ELSE DigitsToNat(d), <<>>)

\* parseFloat(str): spaces, a sign, digits, then "." and digits; NaN without digits
parseFloat(str) ==
    LET t    == SkipSpaces(str)
        neg  == Len(t) > 0 /\ t[1] = "-"
        body == IF Len(t) > 0 /\ t[1] \in {"-", "+"} THEN Tail(t) ELSE t
        d    == DigitPrefix(body)
        rest == Drop(body, Len(d))
        f    == IF Len(rest) > 0 /\ rest[1] = "." THEN DigitPrefix(Tail(rest)) ELSE <<>>
    IN  IF d = <<>> /\ f = <<>> THEN NaN
        ELSE Num(IF neg THEN 0 - DigitsToNat(d) ELSE DigitsToNat(d),
                 StripTrailingZeros(f))

\* new Date(str) has a valid time.  The raw values of the model that reach it are
\* either in the date-only ISO form YYYY-MM-DD or hold no digit at all, the two
\* cases every engine decides alike.
IsValidDate(str) ==
    /\ Len(str) = 10
    /\ str[5] = "-" /\ str[8] = "-"
    /\ \A i \in {1, 2, 3, 4, 6, 7, 9, 10} : IsDigit(str[i])
    /\ DigitsToNat(SubSeq(str, 6, 7)) \in 1..12
    /\ DigitsToNat(SubSeq(str, 9, 10)) \in 1..31

\* index.js:42  !/^n|^f/i.test(str) || str == '0'
boolConverter(str) ==
    Bool((~(Len(str) > 0 /\ Lower(str[1]) \in {"n", "f"})) \/ str = <<"0">>)

\* test.js:124  the caller's converter of the type name-age
nameAgeConverter(str) ==
    LET parts == Split(str, <<"!">>)
        age   == IF Len(parts) > 1 THEN parseInt(parts[2]) ELSE NaN
    IN  IF age.t = "NaN" THEN [t |-> "object(age NaN)", s |-> parts[1], n |-> 0]
        ELSE ObjectOf(parts[1], age.n)

\* a caller's converter that replaces the built-in bool: true, false, else undefined
strictBoolConverter(str) ==
    IF str = <<"t", "r", "u", "e">> THEN Bool(TRUE)
    ELSE IF str = <<"f", "a", "l", "s", "e">> THEN Bool(FALSE)
    ELSE Undefined

\* the call converter(str) of paramValues.map(converter)
Convert(converter, str) ==
    CASE converter = "string"  -> Str(str)
      [] converter = "int"     -> LET i == parseInt(str)
                                  IN  IF i.t = "NaN" THEN Undefined ELSE i
      [] converter = "float"   -> LET i == parseFloat(str)
                                  IN  IF i.t = "NaN" THEN Undefined ELSE i
      [] converter = "date"    -> IF IsValidDate(str) THEN DateOf(str) ELSE Undefined
      [] converter = "bool"    -> boolConverter(str)
      [] converter = "nameAge" -> nameAgeConverter(str)
      [] converter = "strictBool" -> strictBoolConverter(str)
      [] OTHER -> Undefined

\* index.js:35-44 the built-in table, from TypeId to converter
BuiltinConverters ==
    [type \in {"string", "int", "float", "date", "bool"} |-> type]

\* index.js:26-33
defaultAutoDetectTypes ==
    << [fieldPattern |-> "/^is/", valuePattern |-> "", dataType |-> "bool"],
       [fieldPattern |-> "/_date$/", valuePattern |-> "", dataType |-> "date"],
       [fieldPattern |-> "", valuePattern |-> "/^[0-9]+$/", dataType |-> "int"],
       [fieldPattern |-> "", valuePattern |-> "/^[0-9]*\\.[0-9]+$/", dataType |-> "float"],
       [fieldPattern |-> "", valuePattern |-> "/^true|false|yes|no$/i", dataType |-> "bool"],
       [fieldPattern |-> "", valuePattern |-> "/^[0-9][0-9-: ]+$/", dataType |-> "date"] >>

-----------------------------------------------------------------------------
(* RegExp(v, reOptions).  The patterns that reach it in the model hold no   *)
(* "(?" group, no lazy quantifier and no "{n}" quantifier.                  *)

\* whether the pattern text s is one the RegExp constructor accepts:
\* depth = open groups, inClass = inside [...], canRepeat = a quantifier may follow
RECURSIVE PatternOk(_, _, _, _)
PatternOk(s, depth, inClass, canRepeat) ==
    IF Len(s) = 0 THEN depth = 0 /\ ~inClass
    ELSE LET c == s[1]
             r == Tail(s)
         IN  IF inClass
             THEN IF c = "]" THEN PatternOk(r, depth, FALSE, TRUE)
                  ELSE IF c = "\\" THEN Len(r) > 0 /\ PatternOk(Tail(r), depth, TRUE, FALSE)
                  ELSE PatternOk(r, depth, TRUE, FALSE)
             ELSE CASE c = "\\" -> Len(r) > 0 /\ PatternOk(Tail(r), depth, FALSE, TRUE)
                    [] c = "["  -> PatternOk(r, depth, TRUE, FALSE)
                    [] c = "("  -> PatternOk(r, depth + 1, FALSE, FALSE)
                    [] c = ")"  -> depth > 0 /\ PatternOk(r, depth - 1, FALSE, TRUE)
                    [] c \in {"*", "+", "?"} -> canRepeat /\ PatternOk(r, depth, FALSE, FALSE)
                    [] c \in {"|", "^", "$"} -> PatternOk(r, depth, FALSE, FALSE)
                    [] OTHER    -> PatternOk(r, depth, FALSE, TRUE)

\* the pattern text RegExp(v) compiles: empty for undefined, else String(v)
PatternText(v) == IF v.t = "undefined" THEN <<>> ELSE JsString(v)

\* index.js:173  RegExp(v, reOptions) throws a SyntaxError on an invalid pattern
ReThrows(v) == ~PatternOk(PatternText(v), 0, FALSE, FALSE)

\* index.js:20-24 called at 179 and 186: regEscape(v) returns undefined for undefined
\* and throws a TypeError for a value that has no method replace
EscapeThrows(v) == v.t \notin {"undefined", "string"}

\* index.js:179  RegExp('^' + regEscape(v), reOptions)
SwRegExp(v, reOptions) ==
    RegExpOf(<<"^">> \o (IF v.t = "undefined" THEN JsString(v) ELSE regEscape(v.s)),
             reOptions)

\* index.js:186  RegExp(regEscape(v), reOptions)
CoRegExp(v, reOptions) ==
    RegExpOf(IF v.t = "undefined" THEN <<>> ELSE regEscape(v.s), reOptions)

-----------------------------------------------------------------------------
(* The filter.  filter is a function from field names to entries            *)
(*   [obj, arr, v, props]:                                                 *)
(*   obj = TRUE : the plain object {} created at index.js:214              *)
(*   obj = FALSE: the value assigned at index.js:212, the array v when arr *)
(*                and the scalar v[1] otherwise                            *)
(*   props      : the properties set at index.js:215, from Mongo operator  *)
(*                to [arr, v]                                              *)

NoProps == [k \in {} |-> [arr |-> FALSE, v |-> <<>>]]

ValueEntry(value) == [obj |-> FALSE, arr |-> value.arr, v |-> value.v, props |-> NoProps]

ObjectEntry(props) == [obj |-> TRUE, arr |-> FALSE, v |-> <<>>, props |-> props]

SetProp(props, op, value) ==
    [k \in (DOMAIN props) \cup {op} |-> IF k = op THEN value ELSE props[k]]

SetField(filter, name, entry) ==
    [k \in (DOMAIN filter) \cup {name} |-> IF k = name THEN entry ELSE filter[k]]

\* ToBoolean(filter[paramName]) at index.js:214
EntryTruthy(filter, name) ==
    /\ name \in DOMAIN filter
    /\ LET e == filter[name]
       IN  e.obj \/ e.arr \/ (Len(e.v) > 0 /\ Truthy(e.v[1]))

\* filter[fieldName] == undefined at index.js:224
EntryUndefined(filter, name) ==
    \/ name \notin DOMAIN filter
    \/ LET e == filter[name]
       IN  ~e.obj /\ ~e.arr /\ (Len(e.v) = 0 \/ e.v[1].t = "undefined")

\* a faulty variant of MergeOperator, which the properties must tell apart: the object is created anew, an earlier operator is lost
MergeOperatorFresh(filter, paramName, mongoOp, value) ==
    SetField(filter, paramName, ObjectEntry(SetProp(NoProps, mongoOp, value)))

\* index.js:214-215  filter[paramName] = filter[paramName] || {};
\*                   filter[paramName][$op] = value;
\* the assignment of a property to a truthy primitive is dropped
MergeOperator(filter, paramName, mongoOp, value) ==
    IF ~EntryTruthy(filter, paramName)
    THEN SetField(filter, paramName, ObjectEntry(SetProp(NoProps, mongoOp, value)))
    ELSE LET e == filter[paramName]
         IN  IF ~e.obj /\ ~e.arr /\ IsPrimitive(e.v[1])
             THEN filter
             ELSE SetField(filter, paramName,
                           [e EXCEPT !.props = SetProp(e.props, mongoOp, value)])

\* index.js:211-216
PutFilter(filter, paramName, mongoOp, value) ==
    IF mongoOp = <<"$", "e", "q">>
    THEN SetField(filter, paramName, ValueEntry(value))
    ELSE MergeOperator(filter, paramName, mongoOp, value)

-----------------------------------------------------------------------------
(* processQuery, index.js:73-263.                                           *)
(*   params  : the entries of the query object in their iteration order,   *)
(*             each [name, val], val = [arr, v]: the string v[1] when      *)
(*             ~arr, the array of strings v when arr                       *)
(*   fields  : the entries of the field specs in their iteration order,    *)
(*             each [name, dataType, required]; dataType "" when not given *)
(*   a diagnostic string is [msg, type, arg]: msg, then type, then arg     *)

Sep == <<"_", "_">>
OpEq == <<"e", "q">>
OpExists == <<"e", "x", "i", "s", "t", "s">>

Diag(msg, type, arg) == [msg |-> msg, type |-> type, arg |-> arg]

HasSpec(fields, name) == \E i \in 1..Len(fields) : fields[i].name = name

SpecOf(fields, name) == fields[CHOOSE i \in 1..Len(fields) : fields[i].name = name]

HasParam(params, name) == \E i \in 1..Len(params) : params[i].name = name

ParamOf(params, name) == params[CHOOSE i \in 1..Len(params) : params[i].name = name].val

\* String(params[paramSpec]): the string itself, or the elements joined by commas
RawText(val) == IF val.arr THEN Join(val.v) ELSE val.v[1]

\* index.js:85  paramSpec.substr(0,2) == "__"
IsReserved(paramSpec) == Take(paramSpec, 2) = Sep

\* index.js:88-89
ParamName(paramSpec) == Split(paramSpec, Sep)[1]

\* index.js:95-97: the operator token, when there is one
HasToken(paramSpec) == Len(Split(paramSpec, Sep)) > 1

Token(paramSpec) == Split(paramSpec, Sep)[2]

\* index.js:98  validOperators.indexOf(paramOp) == -1
IsInvalidToken(paramSpec) == HasToken(paramSpec) /\ ~IsValidOperator(Token(paramSpec))

\* index.js:95-104
ParamOp(paramSpec) ==
    IF HasToken(paramSpec) /\ ~IsInvalidToken(paramSpec) THEN Token(paramSpec) ELSE OpEq

\* index.js:111-120
SplitValues(val, paramOp) ==
    IF ~val.arr
    THEN IF isMultiValOp(paramOp) THEN Split(val.v[1], <<",">>) ELSE <<val.v[1]>>
    ELSE val.v

\* index.js:139-140
RuleMatches(ad, paramName, first) ==
    \/ ad.valuePattern # "" /\ Test(ad.valuePattern, first)
    \/ ad.fieldPattern # "" /\ Test(ad.fieldPattern, paramName)

\* index.js:137-144: the first rule that matches decides, else 'string'
AutoDetect(autoDetectTypes, paramName, first) ==
    IF \E i \in 1..Len(autoDetectTypes) : RuleMatches(autoDetectTypes[i], paramName, first)
    THEN autoDetectTypes[CHOOSE i \in 1..Len(autoDetectTypes) :
             /\ RuleMatches(autoDetectTypes[i], paramName, first)
             /\ \A j \in 1..(i - 1) : ~RuleMatches(autoDetectTypes[j], paramName, first)
         ].dataType
    ELSE "string"

\* index.js:125-146
ResolveType(autoDetectTypes, fields, paramName, paramOp, first) ==
    IF HasSpec(fields, paramName)
    THEN IF SpecOf(fields, paramName).dataType # ""
         THEN SpecOf(fields, paramName).dataType
         ELSE "string"
    ELSE IF paramOp = OpExists THEN "bool"
         ELSE AutoDetect(autoDetectTypes, paramName, first)

\* index.js:131-133
MissingSpec(fields, validate, paramName) == validate /\ ~HasSpec(fields, paramName)

\* index.js:151-156: a missing converter makes map throw, which is caught
ConvertValues(converters, dataType, paramValues) ==
    IF dataType \notin DOMAIN converters THEN <<Undefined>>
    ELSE [i \in 1..Len(paramValues) |-> Convert(converters[dataType], paramValues[i])]

\* index.js:157
SomeUndefined(paramValues) == \E i \in 1..Len(paramValues) : paramValues[i].t = "undefined"

\* index.js:169
ReOptions(paramOp) == IF paramOp[1] = "i" THEN "i" ELSE ""

\* index.js:168-195: the Mongo operator
MongoOperator(paramOp) ==
    IF HasRe(paramOp)
    THEN IF paramOp = <<"r", "e", "i", "n">> THEN <<"$", "i", "n">> ELSE <<"$", "e", "q">>
    ELSE IF HasSw(paramOp) \/ HasCo(paramOp)
    THEN IF HasIn(paramOp) THEN <<"$", "i", "n">> ELSE <<"$", "e", "q">>
    ELSE IF paramOp = <<"e", "q", "a">> THEN <<"$", "e", "q">>
    ELSE <<"$">> \o paramOp

\* index.js:171-188: the exception a regular-expression map throws, "" when none
RegexAbort(paramOp, paramValues) ==
    IF HasRe(paramOp)
    THEN IF \E i \in 1..Len(paramValues) : ReThrows(paramValues[i])
         THEN "SyntaxError" ELSE ""
    ELSE IF HasSw(paramOp) \/ HasCo(paramOp)
    THEN IF \E i \in 1..Len(paramValues) : EscapeThrows(paramValues[i])
         THEN "TypeError" ELSE ""
    ELSE ""

\* index.js:171-188: the values after the regular-expression map
RegexValues(paramOp, paramValues) ==
    IF HasRe(paramOp)
    THEN [i \in 1..Len(paramValues) |->
             RegExpOf(PatternText(paramValues[i]), ReOptions(paramOp))]
    ELSE IF HasSw(paramOp)
    THEN [i \in 1..Len(paramValues) |-> SwRegExp(paramValues[i], ReOptions(paramOp))]
    ELSE IF HasCo(paramOp)
    THEN [i \in 1..Len(paramValues) |-> CoRegExp(paramValues[i], ReOptions(paramOp))]
    ELSE paramValues

\* a faulty variant of FilterValue, which the properties must tell apart: a one-element array collapses whatever the operator
FilterValueCollapse(paramOp, paramValues) ==
    IF Len(paramValues) > 1
    THEN [arr |-> TRUE, v |-> paramValues]
    ELSE [arr |-> FALSE, v |-> <<paramValues[1]>>]

\* index.js:207-209
FilterValue(paramOp, paramValues) ==
    IF Len(paramValues) > 1 \/ isMultiValOp(paramOp)
    THEN [arr |-> TRUE, v |-> paramValues]
    ELSE [arr |-> FALSE, v |-> <<paramValues[1]>>]

\* the converted values of one parameter, index.js:111-156
Converted(cfg, converters, fields, param) ==
    LET paramName == ParamName(param.name)
        paramOp   == ParamOp(param.name)
        raw       == SplitValues(param.val, paramOp)
        dataType  == ResolveType(cfg.autoDetectTypes, fields, paramName, paramOp, raw[1])
    IN  ConvertValues(converters, dataType, raw)

\* the diagnostics one parameter pushes, index.js:99, 132, 158, in this order
ParamErrors(cfg, converters, fields, validate, param) ==
    LET paramName == ParamName(param.name)
        paramOp   == ParamOp(param.name)
        raw       == SplitValues(param.val, paramOp)
        dataType  == ResolveType(cfg.autoDetectTypes, fields, paramName, paramOp, raw[1])
    IN  (IF IsInvalidToken(param.name)
         THEN <<Diag("Invalid operator: ", "", Token(param.name))>> ELSE <<>>)
        \o (IF MissingSpec(fields, validate, paramName)
            THEN <<Diag("Missing field spec: ", "", paramName)>> ELSE <<>>)
        \o (IF SomeUndefined(Converted(cfg, converters, fields, param))
            THEN <<Diag("Error converting to ", dataType, RawText(param.val))>> ELSE <<>>)

\* the data type one parameter resolves to, index.js:125-146
DataTypeOf(cfg, fields, param) ==
    LET paramOp == ParamOp(param.name)
    IN  ResolveType(cfg.autoDetectTypes, fields, ParamName(param.name), paramOp,
                    SplitValues(param.val, paramOp)[1])

\* one turn of the loop index.js:79-217 on the loop state
\* st = [errors, filter, abort, types]: abort names the exception that left the
\* loop ("" when none), types holds for each turn begun the dataType it resolved
\* ("" for a name the loop skips at index.js:85)
ProcessParam(st, cfg, converters, fields, validate, param) ==
    IF st.abort # "" THEN st
    ELSE IF IsReserved(param.name) THEN [st EXCEPT !.types = Append(@, "")]
    ELSE LET paramName == ParamName(param.name)
             paramOp   == ParamOp(param.name)
             values    == Converted(cfg, converters, fields, param)
             errors    == st.errors \o ParamErrors(cfg, converters, fields, validate, param)
             types     == Append(st.types, DataTypeOf(cfg, fields, param))
             abort     == RegexAbort(paramOp, values)
         IN  IF abort # ""
             THEN [errors |-> errors, filter |-> st.filter, abort |-> abort,
                   types |-> types]
             ELSE [errors |-> errors,
                   filter |-> PutFilter(st.filter, paramName, MongoOperator(paramOp),
                                        FilterValue(paramOp, RegexValues(paramOp, values))),
                   abort  |-> "",
                   types  |-> types]

NoFilter == [k \in {} |-> ObjectEntry(NoProps)]

\* the loop index.js:79-217 over the parameters in their order
RECURSIVE FilterLoop(_, _, _, _, _)
FilterLoop(params, cfg, converters, fields, validate) ==
    IF Len(params) = 0
    THEN [errors |-> <<>>, filter |-> NoFilter, abort |-> "", types |-> <<>>]
    ELSE ProcessParam(FilterLoop(SubSeq(params, 1, Len(params) - 1),
                                 cfg, converters, fields, validate),
                      cfg, converters, fields, validate, params[Len(params)])

\* index.js:222-228: each required field that is not in the filter pushes two
\* strings, the message and the field name (push is called with two arguments)
RECURSIVE RequiredErrors(_, _)
RequiredErrors(fields, filter) ==
    IF Len(fields) = 0 THEN <<>>
    ELSE (IF fields[1].required /\ EntryUndefined(filter, fields[1].name)
          THEN <<Diag("Missing required filter on field: ", "", <<>>),
                 Diag("", "", fields[1].name)>>
          ELSE <<>>)
         \o RequiredErrors(Tail(fields), filter)

\* ToBoolean(params.__limit): a non-empty string, or an array
DirectiveGiven(params, name) ==
    /\ HasParam(params, name)
    /\ LET val == ParamOf(params, name) IN val.arr \/ val.v[1] # <<>>

\* index.js:233-239
Directive(params, name) ==
    IF DirectiveGiven(params, name) THEN parseInt(RawText(ParamOf(params, name)))
    ELSE Undefined

LimitName == <<"_", "_", "l", "i", "m", "i", "t">>
OffsetName == <<"_", "_", "o", "f", "f", "s", "e", "t">>
SortName == <<"_", "_", "s", "o", "r", "t">>

\* index.js:244
SortSpecs(params) ==
    LET val == ParamOf(params, SortName)
    IN  IF val.arr THEN val.v ELSE Split(val.v[1], <<",">>)

\* index.js:246-251
SortField(s) == IF Take(s, 1) = <<"-">> THEN Drop(s, 1) ELSE s

SortDirection(s) == IF Take(s, 1) = <<"-">> THEN 0 - 1 ELSE 1

\* index.js:252-254
RECURSIVE SortErrors(_, _, _)
SortErrors(sortSpecs, fields, validate) ==
    IF Len(sortSpecs) = 0 THEN <<>>
    ELSE (IF validate /\ ~HasSpec(fields, SortField(sortSpecs[1]))
          THEN <<Diag("Invalid sort field: ", "", SortField(sortSpecs[1]))>>
          ELSE <<>>)
         \o SortErrors(Tail(sortSpecs), fields, validate)

\* index.js:243-256: sort[sortField] = direction, a later token overwriting an earlier
SortMap(sortSpecs) ==
    [f \in {SortField(sortSpecs[i]) : i \in 1..Len(sortSpecs)} |->
        SortDirection(sortSpecs[CHOOSE i \in 1..Len(sortSpecs) :
            /\ SortField(sortSpecs[i]) = f
            /\ \A j \in (i + 1)..Len(sortSpecs) : SortField(sortSpecs[j]) # f])]

NoSort == [f \in {} |-> 0]

\* the whole call index.js:73-263: its outcome
\*   kind "returned": the result {filter, sort, limit, offset}
\*   kind "raised"  : throw errors (index.js:260), the thrown list is errors
\*   kind "aborted" : another exception left the call, named by exception
\* errors, types and filter are the local variables as the call left them
processQuery(cfg, converters, params, fields, validate) ==
    LET loop == FilterLoop(params, cfg, converters, fields, validate)
        hasSort == DirectiveGiven(params, SortName)
        errors == loop.errors
                  \o RequiredErrors(fields, loop.filter)
                  \o (IF hasSort THEN SortErrors(SortSpecs(params), fields, validate)
                      ELSE <<>>)
    IN  IF loop.abort # ""
        THEN [kind |-> "aborted", exception |-> loop.abort, errors |-> loop.errors,
              types |-> loop.types,
              filter |-> loop.filter, hasSort |-> FALSE, sort |-> NoSort,
              limit |-> Undefined, offset |-> Undefined]
        ELSE [kind |-> IF Len(errors) > 0 THEN "raised" ELSE "returned",
              exception |-> "", errors |-> errors,
              types |-> loop.types,
              filter |-> loop.filter,
              hasSort |-> hasSort,
              sort |-> IF hasSort THEN SortMap(SortSpecs(params)) ELSE NoSort,
              limit |-> Directive(params, LimitName),
              offset |-> Directive(params, OffsetName)]

-----------------------------------------------------------------------------
(* qpm, index.js:50-67 *)

\* a faulty variant of AutoDetectTypes, which the properties must tell apart: the caller's rules come after the built-in rules
AutoDetectTypesAppended(opts) == defaultAutoDetectTypes \o opts.autoDetect

\* index.js:56-59: the caller's rules, then the built-in rules
AutoDetectTypes(opts) == opts.autoDetect \o defaultAutoDetectTypes

\* index.js:61-67: dataTypeConverters is the module-wide table itself, and the
\* caller's converters are written into it
MergeConverters(table, opts) ==
    [type \in (DOMAIN table) \cup (DOMAIN opts.converters) |->
        IF type \in DOMAIN opts.converters THEN opts.converters[type] ELSE table[type]]

\* index.js:61 and 151: the table a processor reads when it is called
dataTypeConverters(p) == defaultDataTypeConverters

-----------------------------------------------------------------------------
(* The inputs of the model *)

MaxProcessors == 2   \* create() calls in one run
MaxParams == 2       \* entries of one query object

FieldA == <<"a">>
FieldIs == <<"i", "s">>

S(str) == [arr |-> FALSE, v |-> <<str>>]
A(strs) == [arr |-> TRUE, v |-> strs]
Param(name, val) == [name |-> name, val |-> val]

\* what follows the field name: nothing, each operator of the vocabulary, and the
\* tokens xx, the empty token, in__x
Suffixes ==
    {<<>>, Sep \o <<"x", "x">>, Sep, Sep \o <<"i", "n">> \o Sep \o <<"x">>}
    \cup {Sep \o validOperators[i] : i \in 1..Len(validOperators)}

CommonValues ==
    {S(<<"1">>), S(<<"a", ",", "b">>), A(<< <<"a", ",", "b">>, <<"c">> >>)}

TypedValues ==
    {S(<<"0">>), S(<<>>), S(<<"(">>), S(<<"n", "o">>), S(<<"1", ".", "5">>),
     S(<<"2", "0", "1", "5", "-", "0", "9", "-", "3", "0">>),
     S(<<"j", "o", "!", "2", "5">>), A(<< <<"p">> >>)}

TypedSuffixes ==
    {<<>>, Sep \o <<"g", "t">>, Sep \o <<"i", "n">>, Sep \o <<"s", "w">>,
     Sep \o <<"r", "e">>, Sep \o <<"i", "r", "e", "i", "n">>}

\* the starts-with and contains operators, with values that hold regex metacharacters
EscapeSuffixes ==
    {Sep \o op : op \in { <<"s", "w">>, <<"s", "w", "i", "n">>, <<"i", "s", "w">>,
                          <<"i", "s", "w", "i", "n">>, <<"c", "o">>, <<"c", "o", "i", "n">>,
                          <<"i", "c", "o">>, <<"i", "c", "o", "i", "n">> }}

EscapeValues ==
    {S(<<"b", "[", "]">>), S(<<"a", ".", "*", ",", "(", "x", ")", "-", "\\">>),
     S(<<"^", "$", "{", "}", "|", "+", "?">>)}

\* raw values of a boolean field
BoolValues == {S(<<"1">>), S(<<"n", "o">>), S(<<"0">>), S(<<>>), S(<<"F">>)}

DirectiveValues ==
    {S(<<"1", "0">>), S(<<"0">>), S(<<>>), S(<<"a", "b">>), S(<<"1", ".", "5">>)}

SortValues ==
    {S(<<"a">>), S(<<"-", "a", ",", "i", "s">>), A(<< <<"-", "a">>, <<"z">> >>)}

\* the first entry of a query object
FirstParams ==
    {Param(FieldA \o sfx, val) : sfx \in Suffixes, val \in CommonValues}
    \cup {Param(FieldA \o sfx, val) : sfx \in TypedSuffixes, val \in TypedValues}
    \cup {Param(FieldA \o sfx, val) : sfx \in EscapeSuffixes, val \in EscapeValues}
    \cup {Param(FieldIs \o sfx, val) :
            sfx \in {<<>>, Sep \o OpExists, Sep \o <<"s", "w">>},
            val \in BoolValues}
    \cup {Param(name, val) : name \in {LimitName, OffsetName}, val \in DirectiveValues}
    \cup {Param(SortName, val) : val \in SortValues}
    \cup {Param(Sep \o <<"i", "g">>, S(<<"1">>))}

\* the first entry of a query object that has more than one entry: the field a
\* with each operator and the value "1", or with each typed value and no operator
PairFirstParams ==
    {Param(FieldA \o sfx, S(<<"1">>)) : sfx \in Suffixes}
    \cup {Param(FieldA, val) : val \in TypedValues}

\* the entries that follow it
MoreParams ==
    {Param(FieldA, S(<<"0">>)),
     Param(FieldA \o Sep \o <<"g", "t">>, S(<<"1">>)),
     Param(FieldA \o Sep \o <<"l", "t", "e">>, S(<<"2">>)),
     Param(FieldA \o Sep \o <<"i", "n">>, S(<<"1", ",", "2">>)),
     Param(FieldIs \o Sep \o <<"x", "x">>, S(<<"n", "o">>)),
     Param(FieldIs \o Sep \o <<"r", "e">>, S(<<"(">>)),
     Param(SortName, S(<<"-", "z">>))}

\* the query objects of at most k entries, no name twice
RECURSIVE ParamLists(_)
ParamLists(k) ==
    IF k = 0 THEN {<<>>}
    ELSE IF k = 1 THEN {<<>>} \cup {<<p>> : p \in FirstParams}
    ELSE ParamLists(k - 1)
         \cup {Append(l, q) : l \in {m \in ParamLists(k - 1) :
                                        Len(m) = k - 1 /\ m[1] \in PairFirstParams},
                              q \in MoreParams}

NamesDistinct(params) ==
    \A i, j \in 1..Len(params) : params[i].name = params[j].name => i = j

QueryObjects == {params \in ParamLists(MaxParams) : NamesDistinct(params)}

FieldSpec(name, dataType, required) ==
    [name |-> name, dataType |-> dataType, required |-> required]

\* the field specs of a call; <<>> also stands for an omitted argument (index.js:75)
FieldSpecs ==
    {<<>>,
     <<FieldSpec(FieldA, "int", FALSE)>>,
     <<FieldSpec(FieldA, "", TRUE)>>,
     <<FieldSpec(FieldA, "string", TRUE), FieldSpec(FieldIs, "foo", FALSE)>>}

NoConverters == [type \in {} |-> ""]

\* qpm() and qpm({})
NoOpts == [autoDetect |-> <<>>, converters |-> NoConverters]

\* the options of test.js:122-133, which also replace the built-in bool converter
CustomOpts ==
    [autoDetect |->
        << [fieldPattern |-> "", valuePattern |-> "/[a-zA-Z]+![0-9]+$/",
            dataType |-> "name-age"],
           [fieldPattern |-> "/^is/", valuePattern |-> "", dataType |-> "string"] >>,
     converters |-> [type \in {"name-age", "bool"} |->
                        IF type = "bool" THEN "strictBool" ELSE "nameAge"]]

Options == {NoOpts, CustomOpts}

-----------------------------------------------------------------------------
(* The state machine *)

Idle == [pc |-> "idle"]

Init == /\ defaultDataTypeConverters = BuiltinConverters
        /\ processors = <<>>
        /\ call = Idle

\* qpm(opts), index.js:50-67 and 73: a processor keeps its rule list; its converter
\* table is the module-wide one (opts is kept to state what the caller asked for)
Create(opts) ==
    /\ call.pc = "idle"
    /\ Len(processors) < MaxProcessors
    /\ defaultDataTypeConverters' = MergeConverters(defaultDataTypeConverters, opts)
    /\ processors' = Append(processors,
                            [autoDetectTypes |-> AutoDetectTypes(opts), opts |-> opts])
    /\ UNCHANGED call

\* processor p is called: processQuery(params, fields, validate), index.js:73-263
Call(p, params, fields, validate) ==
    /\ call.pc = "idle"
    /\ call' = [pc |-> "done", p |-> p, params |-> params, fields |-> fields,
                validate |-> validate,
                out |-> processQuery(processors[p], dataTypeConverters(p),
                                     params, fields, validate)]
    /\ UNCHANGED <<defaultDataTypeConverters, processors>>

\* the caller takes the outcome; nothing of the call stays behind
Return ==
    /\ call.pc = "done"
    /\ call' = Idle
    /\ UNCHANGED <<defaultDataTypeConverters, processors>>

Next ==
    \/ \E opts \in Options : Create(opts)
    \/ /\ call.pc = "idle"
       /\ \E p \in 1..Len(processors), params \in QueryObjects,
             fields \in FieldSpecs, validate \in BOOLEAN :
               Call(p, params, fields, validate)
    \/ Return

Spec == Init /\ [][Next]_vars
-----------------------------------------------------------------------------
(* Properties *)

Done == call.pc = "done"

Returned == Done /\ call.out.kind = "returned"

Range(seq) == {seq[i] : i \in 1..Len(seq)}

\* the configuration and the converter table of the finished call
CallCfg == processors[call.p]

\* the entries of the finished call that are filter parameters
FilterParams == {i \in 1..Len(call.params) : ~IsReserved(call.params[i].name)}

\* the diagnostics the loop pushes for entry i of the finished call
DiagsOf(i) ==
    ParamErrors(CallCfg, defaultDataTypeConverters, call.fields, call.validate,
                call.params[i])

\* C1: a finished call either returned a result, and then no diagnostic was
\* accumulated, or raised the list of diagnostics, and then the list holds every
\* diagnostic of every filter parameter; no call ends in another way.
C1_ReturnsOrRaisesAll ==
    Done =>
        /\ call.out.kind \in {"returned", "raised"}
        /\ (call.out.kind = "returned") <=> (call.out.errors = <<>>)
        /\ \A i \in FilterParams : Range(DiagsOf(i)) \subseteq Range(call.out.errors)

\* C2: every processor uses, for every TypeId, the converter its own create() call
\* fixed: the caller's entry when the options gave one, else the built-in; it knows
\* no TypeId of another create() call.
C2_IndependentConfig ==
    \A p \in 1..Len(processors) :
        dataTypeConverters(p) = MergeConverters(BuiltinConverters, processors[p].opts)

\* the entries of params in the order f, a permutation of their indices
Reordered(params, f) == [i \in 1..Len(params) |-> params[f[i]]]

\* C3: when a call returned, the call on the same entries in any other order, with
\* the same field specs and strict flag, returns the same filter.
C3_OrderIndependent ==
    Returned =>
        \A f \in Permutations(1..Len(call.params)) :
            LET other == processQuery(CallCfg, defaultDataTypeConverters,
                                      Reordered(call.params, f),
                                      call.fields, call.validate)
            IN  other.kind = "returned" /\ other.filter = call.out.filter

\* the filter parameters of the finished call on field name
ParamsOn(name) == {i \in FilterParams : ParamName(call.params[i].name) = name}

\* the filter value the finished call computes for entry i: the raw values split,
\* converted, made regular expressions, and collapsed
ValueOf(i) ==
    LET paramOp == ParamOp(call.params[i].name)
    IN  FilterValue(paramOp,
                    RegexValues(paramOp,
                                Converted(CallCfg, defaultDataTypeConverters,
                                          call.fields, call.params[i])))

MongoOf(i) == MongoOperator(ParamOp(call.params[i].name))

Eq == <<"$", "e", "q">>

HeldValue(i) ==
    LET e == call.out.filter[ParamName(call.params[i].name)]
    IN  IF MongoOf(i) = Eq THEN [arr |-> e.arr, v |-> e.v] ELSE e.props[MongoOf(i)]

\* the multi-value operators, as the claim lists them
MultiValueOperators ==
    { <<"i", "n">>, <<"n", "i", "n">>, <<"a", "l", "l">>, <<"e", "q", "a">>,
      <<"s", "w", "i", "n">>, <<"i", "s", "w", "i", "n">>, <<"c", "o", "i", "n">>,
      <<"i", "c", "o", "i", "n">>, <<"r", "e", "i", "n">>, <<"i", "r", "e", "i", "n">> }

\* the filter value of entry i had its raw strings been the elements of strs, unsplit
UnsplitValue(i, strs) ==
    LET paramOp  == ParamOp(call.params[i].name)
        dataType == ResolveType(CallCfg.autoDetectTypes, call.fields,
                                ParamName(call.params[i].name), paramOp, strs[1])
    IN  RegexValues(paramOp, ConvertValues(defaultDataTypeConverters, dataType, strs))

\* the entries that are the only filter parameter of their field
Alone == {i \in FilterParams : ParamsOn(ParamName(call.params[i].name)) = {i}}

\* C5: in a returned filter, for a parameter that is alone on its field: with a
\* multi-value operator a single string gives an array that has one element per
\* comma-separated part, also when there is one part; with any other operator a
\* single string gives a scalar, the conversion of the whole string, commas
\* included; a value received as an array of two or more elements gives an array
\* of as many elements, each the conversion of the whole element, whatever the
\* operator; a value received as an array of one element gives an array for a
\* multi-value operator and the scalar conversion of the element otherwise.
C5_ValueShape ==
    Returned =>
        \A i \in Alone :
            LET val     == call.params[i].val
                paramOp == ParamOp(call.params[i].name)
                held    == HeldValue(i)
            IN  /\ (~val.arr /\ paramOp \in MultiValueOperators)
                   => /\ held.arr
                      /\ Len(held.v) = Len(Split(val.v[1], <<",">>))
                /\ (~val.arr /\ paramOp \notin MultiValueOperators)
                   => /\ ~held.arr
                      /\ held.v = UnsplitValue(i, val.v)
                /\ (val.arr /\ Len(val.v) >= 2)
                   => /\ held.arr
                      /\ held.v = UnsplitValue(i, val.v)
                /\ (val.arr /\ Len(val.v) = 1)
                   => /\ held.arr <=> paramOp \in MultiValueOperators
                      /\ held.v = UnsplitValue(i, val.v)

\* C5 as stated: in a returned filter, for a parameter that is alone on its field,
\* a single string is split exactly for the multi-value operators, and a value
\* received as an array, of any length, gives an array of its elements whatever
\* the operator.
C5_ArraysKept ==
    Returned =>
        \A i \in Alone :
            LET val     == call.params[i].val
                paramOp == ParamOp(call.params[i].name)
                held    == HeldValue(i)
            IN  /\ (~val.arr /\ paramOp \in MultiValueOperators)
                   => /\ held.arr
                      /\ Len(held.v) = Len(Split(val.v[1], <<",">>))
                /\ (~val.arr /\ paramOp \notin MultiValueOperators)
                   => /\ ~held.arr
                      /\ held.v = UnsplitValue(i, val.v)
                /\ val.arr
                   => /\ held.arr
                      /\ held.v = UnsplitValue(i, val.v)

\* C5 witness: a returned filter that holds a one-element array for a multi-value
\* operator given a single string without a comma
C5_Witness ==
    /\ Returned
    /\ \E i \in Alone :
          /\ ~call.params[i].val.arr
          /\ ParamOp(call.params[i].name) \in MultiValueOperators
          /\ call.params[i].val.v[1] # <<>>
          /\ ~Contains(call.params[i].val.v[1], <<",">>)
          /\ HeldValue(i).arr
          /\ Len(HeldValue(i).v) = 1

\* the operator token of the claim: everything after the first separator
TokenAfterFirstSep(paramSpec) == Drop(paramSpec, IndexOf(paramSpec, Sep) + 1)

\* C6: in a call that no exception left part-way, a filter parameter whose name
\* holds a separator and whose token, everything after the first separator, is not
\* an operator of the vocabulary adds the diagnostic "Invalid operator" and the
\* call raises.
C6_TokenAfterFirstSeparator ==
    (Done /\ call.out.kind # "aborted") =>
        \A i \in FilterParams :
            LET paramSpec == call.params[i].name
            IN  (Contains(paramSpec, Sep) /\ ~IsValidOperator(TokenAfterFirstSep(paramSpec)))
                => /\ call.out.kind = "raised"
                   /\ \E k \in 1..Len(call.out.errors) :
                         call.out.errors[k].msg = "Invalid operator: "

\* the first rule of rules that matches, as its data type; "" when none matches
FirstMatch(rules, name, first) ==
    LET hits == {k \in 1..Len(rules) : RuleMatches(rules[k], name, first)}
    IN  IF hits = {} THEN ""
        ELSE rules[CHOOSE k \in hits : \A j \in hits : k <= j].dataType

\* the six built-in rules in the order the claim gives them
BuiltinGuess(name, first) ==
    IF StartsWith(name, <<"i", "s">>) THEN "bool"
    ELSE IF EndsWith(name, <<"_", "d", "a", "t", "e">>) THEN "date"
    ELSE IF Test("/^[0-9]+$/", first) THEN "int"
    ELSE IF Test("/^[0-9]*\\.[0-9]+$/", first) THEN "float"
    ELSE IF Test("/^true|false|yes|no$/i", first) THEN "bool"
    ELSE IF Test("/^[0-9][0-9-: ]+$/", first) THEN "date"
    ELSE "string"

\* the caller's rules first, then the built-in rules, else string
ScannedType(i) ==
    LET name  == ParamName(call.params[i].name)
        first == SplitValues(call.params[i].val, ParamOp(call.params[i].name))[1]
        own   == FirstMatch(CallCfg.opts.autoDetect, name, first)
    IN  IF own # "" THEN own ELSE BuiltinGuess(name, first)

ExplicitType(i) ==
    LET name == ParamName(call.params[i].name)
    IN  IF HasSpec(call.fields, name) THEN SpecOf(call.fields, name).dataType ELSE ""

FieldOf(i) ==
    LET paramSpec == call.params[i].name
    IN  IF Contains(paramSpec, Sep) THEN Take(paramSpec, IndexOf(paramSpec, Sep) - 1)
        ELSE paramSpec

\* the fields the __sort value of the finished call names, the prefix "-" removed
SortFieldsNamed ==
    IF ~DirectiveGiven(call.params, SortName) THEN {}
    ELSE LET val    == ParamOf(call.params, SortName)
             tokens == IF val.arr THEN val.v ELSE Split(val.v[1], <<",">>)
         IN  {IF Len(tokens[k]) > 0 /\ tokens[k][1] = "-" THEN Tail(tokens[k])
              ELSE tokens[k] : k \in 1..Len(tokens)}

\* how many strings of the list errors are the diagnostic d
Count(errors, d) == Cardinality({k \in 1..Len(errors) : errors[k] = d})

\* C8: in a strict call every filter parameter whose field has no field spec
\* added one "Missing field spec" diagnostic naming the field, and every field of
\* __sort without a field spec has an "Invalid sort field" diagnostic naming it;
\* so a strict call returns only when every filter field and every sort field has
\* a field spec.  A call that is not strict holds neither diagnostic.
C8_StrictDiagnostics ==
    Done =>
        /\ call.validate =>
              /\ \A i \in FilterParams :
                    ~HasSpec(call.fields, FieldOf(i))
                    => Count(call.out.errors, Diag("Missing field spec: ", "", FieldOf(i)))
                       = Cardinality({j \in FilterParams : FieldOf(j) = FieldOf(i)})
              /\ \A f \in SortFieldsNamed :
                    ~HasSpec(call.fields, f)
                    => Count(call.out.errors, Diag("Invalid sort field: ", "", f)) >= 1
              /\ call.out.kind = "returned" =>
                    /\ \A i \in FilterParams : HasSpec(call.fields, FieldOf(i))
                    /\ \A f \in SortFieldsNamed : HasSpec(call.fields, f)
        /\ ~call.validate =>
              \A k \in 1..Len(call.out.errors) :
                  call.out.errors[k].msg \notin {"Missing field spec: ", "Invalid sort field: "}

\* C8 for the calls that end by returning or by raising their diagnostics: the
\* same statement, and it holds there; a call that an exception of a regex step
\* leaves is the only place where C8_StrictDiagnostics fails.
C8_StrictDiagnosticsOfEndedCalls ==
    (Done /\ call.out.kind # "aborted") => C8_StrictDiagnostics

\* the required fields of the finished call that are no key of its filter
MissingRequired ==
    {k \in 1..Len(call.fields) :
        call.fields[k].required /\ call.fields[k].name \notin DOMAIN call.out.filter}

\* C9: in a call that no exception left part-way, each required field that is no
\* key of the filter added exactly one diagnostic string, which names that field,
\* and the call raised.
C9_OneDiagnosticPerRequiredField ==
    (Done /\ call.out.kind # "aborted") =>
        \A k \in MissingRequired :
            /\ call.out.kind = "raised"
            /\ Cardinality({e \in 1..Len(call.out.errors) :
                    \/ call.out.errors[e].msg = "Missing required filter on field: "
                    \/ call.out.errors[e] = Diag("", "", call.fields[k].name)}) = 1
            /\ \E e \in 1..Len(call.out.errors) :
                    /\ call.out.errors[e].msg = "Missing required filter on field: "
                    /\ call.out.errors[e].arg = call.fields[k].name

\* an integer: a number without a fraction
IsInteger(v) == v.t = "number" /\ v.s = <<>>

\* C10: in a returned result limit is undefined exactly when __limit was not
\* supplied and is otherwise an integer, and likewise offset for __offset.
C10_PaginationIntegers ==
    Returned =>
        \A d \in {<<LimitName, call.out.limit>>, <<OffsetName, call.out.offset>>} :
            /\ (d[2].t = "undefined") <=> ~HasParam(call.params, d[1])
            /\ HasParam(call.params, d[1]) => IsInteger(d[2])

\* the characters that are syntax in a regular expression
SyntaxChars == {"^", "$", "\\", ".", "*", "+", "?", "(", ")", "[", "]", "{", "}", "|"}

\* the text a pattern matches when it matches one text only: an ordinary character
\* stands for itself and a backslash before a syntax character or "-" for that
\* character; ok is FALSE for a pattern that holds an unescaped syntax character
\* or another escape, which is a pattern and no literal text
RECURSIVE LiteralText(_)
LiteralText(pattern) ==
    IF Len(pattern) = 0 THEN [ok |-> TRUE, text |-> <<>>]
    ELSE IF pattern[1] = "\\"
    THEN IF Len(pattern) >= 2 /\ pattern[2] \in SyntaxChars \cup {"-"}
         THEN LET rest == LiteralText(Drop(pattern, 2))
              IN  [ok |-> rest.ok, text |-> <<pattern[2]>> \o rest.text]
         ELSE [ok |-> FALSE, text |-> <<>>]
    ELSE IF pattern[1] \in SyntaxChars THEN [ok |-> FALSE, text |-> <<>>]
    ELSE LET rest == LiteralText(Tail(pattern))
         IN  [ok |-> rest.ok, text |-> <<pattern[1]>> \o rest.text]

SwFamily == { <<"s", "w">>, <<"s", "w", "i", "n">>, <<"i", "s", "w">>, <<"i", "s", "w", "i", "n">> }
CoFamily == { <<"c", "o">>, <<"c", "o", "i", "n">>, <<"i", "c", "o">>, <<"i", "c", "o", "i", "n">> }

\* the raw strings of entry i: the comma-separated parts of a single string for
\* the operators whose name ends in "in", else the string or the array elements
RawStrings(i) ==
    LET val     == call.params[i].val
        paramOp == ParamOp(call.params[i].name)
    IN  IF ~val.arr /\ EndsWith(paramOp, <<"i", "n">>) THEN Split(val.v[1], <<",">>)
        ELSE val.v

\* C11: in a returned filter, for a parameter that is alone on its field, each
\* value of a starts-with operator is a regular expression whose source is "^"
\* followed by a pattern that matches the raw value as a literal text and nothing
\* else, and each value of a contains operator is a regular expression whose
\* source is such a pattern without anchor.
C11_EscapedLiteral ==
    Returned =>
        \A i \in Alone :
            LET paramOp == ParamOp(call.params[i].name)
                raw     == RawStrings(i)
                held    == HeldValue(i)
            IN  paramOp \in SwFamily \cup CoFamily
                => /\ Len(held.v) = Len(raw)
                   /\ \A k \in 1..Len(raw) :
                         /\ held.v[k].t = "RegExp"
                         /\ paramOp \in SwFamily
                            => /\ Len(held.v[k].s) >= 1
                               /\ held.v[k].s[1] = "^"
                               /\ LiteralText(Tail(held.v[k].s)) = [ok |-> TRUE, text |-> raw[k]]
                         /\ paramOp \in CoFamily
                            => LiteralText(held.v[k].s) = [ok |-> TRUE, text |-> raw[k]]

\* C11 witness: a returned filter whose starts-with expression escapes a
\* metacharacter of the raw value
C11_Witness ==
    /\ Returned
    /\ \E i \in Alone :
          /\ ParamOp(call.params[i].name) \in SwFamily
          /\ \E k \in 1..Len(RawStrings(i)) :
                /\ \E j \in 1..Len(RawStrings(i)[k]) : RawStrings(i)[k][j] \in SyntaxChars
                /\ HeldValue(i).v[k].t = "RegExp"
                /\ Contains(HeldValue(i).v[k].s, <<"\\">>)

ReFamily == { <<"r", "e">>, <<"r", "e", "i", "n">>, <<"i", "r", "e">>, <<"i", "r", "e", "i", "n">> }

\* the values entry i holds when its operator is read as the claim reads it: under
\* $in of the field's object for a name that contains "in", else the field's value
\* itself; <<>> when the filter holds them in neither place
PatternValues(i) ==
    LET e       == call.out.filter[FieldOf(i)]
        paramOp == ParamOp(call.params[i].name)
        in      == <<"$", "i", "n">>
    IN  IF Contains(paramOp, <<"i", "n">>)
        THEN IF e.obj /\ DOMAIN e.props = {in} THEN e.props[in].v ELSE <<>>
        ELSE IF ~e.obj THEN e.v ELSE <<>>

\* C12: in a returned filter, for a parameter of the re, sw and co families that
\* is alone on its field, the values are regular expressions held under $in when
\* the operator name contains "in" and directly under the field key otherwise, and
\* each has the flag i exactly when the operator name begins with "i".
C12_PatternOperators ==
    Returned =>
        \A i \in Alone :
            LET paramOp == ParamOp(call.params[i].name)
                values  == PatternValues(i)
            IN  paramOp \in ReFamily \cup SwFamily \cup CoFamily
                => /\ Len(values) >= 1
                   /\ \A k \in 1..Len(values) :
                         /\ values[k].t = "RegExp"
                         /\ (values[k].n = 1) <=> (paramOp[1] = "i")

\* the boolean the claim gives a raw string: false when it begins with n or f in
\* either case or is "0", else true
ClaimedBool(str) ==
    ~ \/ (Len(str) > 0 /\ str[1] \in {"n", "N", "f", "F"})
      \/ str = <<"0">>

\* C13: while the built-in bool converter is the one in the table, a call that
\* ends without exception has no "Error converting to bool" diagnostic, and in a
\* returned filter an exists parameter that is alone on a field without field
\* spec holds under $exists the boolean the rule above gives its raw value.
C13_BoolConverter ==
    (Done /\ defaultDataTypeConverters["bool"] = "bool") =>
        /\ \A k \in 1..Len(call.out.errors) :
              ~ (call.out.errors[k].msg = "Error converting to " /\ call.out.errors[k].type = "bool")
        /\ call.out.kind = "returned" =>
              \A i \in Alone :
                  (/\ ParamOp(call.params[i].name) = OpExists
                   /\ ~call.params[i].val.arr
                   /\ ~HasSpec(call.fields, FieldOf(i)))
                  => LET e  == call.out.filter[FieldOf(i)]
                         ex == <<"$">> \o OpExists
                     IN  /\ e.obj
                         /\ ex \in DOMAIN e.props
                         /\ e.props[ex].v = <<Bool(ClaimedBool(call.params[i].val.v[1]))>>

\* C14: no exception other than the raise of the diagnostic list ends a call:
\* every finished call took the turn of each of its parameters, and ended by
\* returning, or by raising a list that is not empty.
C14_OnlyAggregateRaise ==
    Done =>
        /\ call.out.exception = ""
        /\ Len(call.out.types) = Len(call.params)
        /\ call.out.kind = "raised" => call.out.errors # <<>>

\* C15: for a filter parameter whose field has no explicit dataType (no field
\* spec, or a field spec without dataType) the type a call resolves is bool when
\* the operator is exists, and then a returned filter holds a boolean under
\* $exists, and is otherwise the type the scan of the rules gives.
C15_NoDataTypeResolvesAsNoSpec ==
    Done =>
        \A i \in FilterParams :
            (i <= Len(call.out.types) /\ ExplicitType(i) = "") =>
                /\ call.out.types[i] =
                      IF ParamOp(call.params[i].name) = OpExists THEN "bool"
                      ELSE ScannedType(i)
                /\ (/\ call.out.kind = "returned"
                    /\ i \in Alone
                    /\ ParamOp(call.params[i].name) = OpExists
                    /\ ~call.params[i].val.arr)
                   => LET e  == call.out.filter[FieldOf(i)]
                          ex == <<"$">> \o OpExists
                      IN  /\ e.obj
                          /\ ex \in DOMAIN e.props
                          /\ e.props[ex].v[1].t = "boolean"

\* the characters of a type name
TypeText(type) ==
    CASE type = "string"   -> <<"s", "t", "r", "i", "n", "g">>
      [] type = "int"      -> <<"i", "n", "t">>
      [] type = "float"    -> <<"f", "l", "o", "a", "t">>
      [] type = "date"     -> <<"d", "a", "t", "e">>
      [] type = "bool"     -> <<"b", "o", "o", "l">>
      [] type = "foo"      -> <<"f", "o", "o">>
      [] type = "name-age" -> <<"n", "a", "m", "e", "-", "a", "g", "e">>
      [] OTHER             -> <<>>

\* whether the text of the diagnostic d holds the field name: the fixed part
\* "Error converting to " holds none of the field names of the model, so the name
\* must occur in the type or in the raw value
NamesField(d, field) == Contains(TypeText(d.type), field) \/ Contains(d.arg, field)

\* the filter parameters of the finished call with a value the converter of the
\* resolved type gave back undefined (or that has no converter)
FailedParams ==
    {i \in FilterParams :
        /\ i <= Len(call.out.types)
        /\ SomeUndefined(Converted(CallCfg, defaultDataTypeConverters, call.fields,
                                   call.params[i]))}

\* C16: in a call that no exception left part-way, every parameter with a failed
\* conversion has a diagnostic "Error converting to" with the resolved type and
\* the raw value, whose text names the parameter's field, there is one such
\* diagnostic per failed parameter, and no returned filter holds undefined.
C16_ConversionDiagnostic ==
    (Done /\ call.out.kind # "aborted") =>
        /\ \A i \in FailedParams :
              \E k \in 1..Len(call.out.errors) :
                  /\ call.out.errors[k].msg = "Error converting to "
                  /\ call.out.errors[k].type = call.out.types[i]
                  /\ call.out.errors[k].arg = RawText(call.params[i].val)
                  /\ NamesField(call.out.errors[k], FieldOf(i))
        /\ Cardinality({k \in 1..Len(call.out.errors) :
                            call.out.errors[k].msg = "Error converting to "})
           = Cardinality(FailedParams)
        /\ call.out.kind = "returned" =>
              /\ FailedParams = {}
              /\ \A i \in Alone : \A k \in 1..Len(HeldValue(i).v) :
                    HeldValue(i).v[k].t # "undefined"

====
